---- MODULE Spec2Model ----
(***************************************************************************)
(* Model of envpool/mujoco/dmc/finger.h (class FingerEnv): the dm_control  *)
(* "finger" task (spin / turn_easy / turn_hard) on top of MujocoEnv.       *)
(*                                                                         *)
(* Numbers are fixed point, in hundredths: 0.07 is 7, 0.03 is 3, 15 rad/s  *)
(* is 1500, the position 0.2 m is 20.  Arrays keep the C++ indices (they   *)
(* are functions on 0..n-1).  A slot of the emitted record holds the tuple *)
(* of numbers written to it; the empty tuple is a slot nothing was written *)
(* to.                                                                     *)
(***************************************************************************)
EXTENDS Integers, Sequences, FiniteSets, TLC

VARIABLES
  pc,             \* "new", "config_error", "idle", "sampling", "sampled", "ready", "init_error"
  task_name,      \* spec.config["task_name"_]
  is_spin_,       \* FingerEnv::is_spin_
  target_radius_, \* FingerEnv::target_radius_
  model_,         \* mjModel fields the task touches
  data_,          \* mjData fields the task touches
  i,              \* SetRandomJointAngles: the outer "int i = 0" (line 176)
  i_for,          \* SetRandomJointAngles: the for statement's own "int i" (line 177)
  attempts,       \* calls of RandomizeLimitedAndRotationalJoints in the current Reset
  target_writes,  \* writes of the target site in the current episode
  reward_, discount_, done_, elapsed_step_,   \* MujocoEnv members
  state,          \* the record the current Reset/Step wrote (WriteState)
  last_op         \* "none", "Reset" or "Step"

vars == <<pc, task_name, is_spin_, target_radius_, model_, data_, i, i_for,
          attempts, target_writes, reward_, discount_, done_, elapsed_step_,
          state, last_op>>

----------------------------------------------------------------------------
(* Program constants *)

kEasyTargetSize == 7
kHardTargetSize == 3
kSpinVelocity == 1500
kSpinDamping == 3
max_attempts == 1000

(* Configuration: max_episode_steps is a config value (default 1000); the  *)
(* model runs a short episode budget.                                      *)
max_episode_steps == 3

TaskNames == {"spin", "turn_easy", "turn_hard", "turn", ""}

(* target_radius_ is left uninitialized by the constructor for "spin": any *)
(* value may be in it.                                                     *)
UninitRadius == {0, 7}

(* FingerEnvFns::StateSpec: the same keys for every config. *)
StateSpec ==
  {"obs:position", "obs:velocity", "obs:touch", "obs:target_position",
   "obs:dist_to_target", "discount"}

----------------------------------------------------------------------------
(* The asset finger.xml and the engine, at their interface. *)

(* site_rgba: 4 sites (target, touchtop, touchbottom, tip) x 4 components, *)
(* MuJoCo's default colour 0.5 0.5 0.5 1.                                  *)
InitSiteRgba == [k \in 0..15 |-> IF k % 4 = 3 THEN 100 ELSE 50]

(* geom_size: 6 geoms x 3 components; geom 5 is the spinner's cap. *)
InitGeomSize ==
  [k \in 0..17 |->
     CASE k \in {0, 1} -> 60
       [] k = 3  -> 3
       [] k = 4  -> 3
       [] k = 6  -> 2
       [] k = 7  -> 8
       [] k = 9  -> 3
       [] k = 10 -> 8
       [] k = 15 -> 4
       [] k = 16 -> 9
       [] OTHER  -> 0]

InitModel ==
  [site_rgba   |-> InitSiteRgba,
   dof_damping |-> [k \in 0..2 |-> IF k = 2 THEN 50 ELSE 250],
   site_pos    |-> [k \in 0..2 |-> IF k = 2 THEN 13 ELSE 0],
   site_size   |-> [k \in 0..0 |-> 3],
   geom_size   |-> InitGeomSize]

(* data_->xanchor of joint 2 (the hinge), x y z: the spinner body's place. *)
xanchor == [k \in 0..8 |-> CASE k = 6 -> 20 [] k = 8 -> 40 [] OTHER -> 0]

(* Joint configurations the engine can be put in: the joint angles, the    *)
(* world position of the tip they give, the contacts and the raw touch     *)
(* readings.                                                               *)
JointConfigs ==
  { [proximal |-> 0,   distal |-> 0,   tip |-> <<20, 0, 27>>, ncon |-> 0, touch |-> <<0, 0>>],
    [proximal |-> -50, distal |-> 30,  tip |-> <<20, 0, 45>>, ncon |-> 0, touch |-> <<0, 0>>],
    [proximal |-> 40,  distal |-> -20, tip |-> <<20, 0, 49>>, ncon |-> 0, touch |-> <<0, 0>>],
    [proximal |-> 60,  distal |-> 10,  tip |-> <<15, 0, 47>>, ncon |-> 1, touch |-> <<100, 0>>],
    [proximal |-> 70,  distal |-> 20,  tip |-> <<18, 0, 50>>, ncon |-> 2, touch |-> <<100, 200>>] }

qpos0 == [proximal |-> 0, distal |-> 0, tip |-> <<20, 0, 27>>, ncon |-> 0, touch |-> <<0, 0>>]

HingeVelocities == {-1501, -1500, -1499, 0}

(* mj_forward: contacts and sensors recomputed from the joint state and    *)
(* the model.  Sensor layout: 0 proximal, 1 distal, 2 proximal_velocity,   *)
(* 3 distal_velocity, 4 hinge_velocity, 5-7 tip, 8-10 target, 11-13        *)
(* spinner, 14 touchtop, 15 touchbottom.                                   *)
Forward(m, q, v) ==
  [qpos |-> q,
   qvel |-> v,
   ncon |-> q.ncon,
   sensordata |->
     [k \in 0..15 |->
        CASE k = 0 -> q.proximal
          [] k = 1 -> q.distal
          [] k = 2 -> v[1]
          [] k = 3 -> v[2]
          [] k = 4 -> v[3]
          [] k \in 5..7 -> q.tip[k - 4]
          [] k \in 8..10 -> m.site_pos[k - 8]
          [] k = 11 -> xanchor[6]
          [] k = 12 -> xanchor[7]
          [] k = 13 -> xanchor[8]
          [] k = 14 -> q.touch[1]
          [] OTHER -> q.touch[2]]]

ZeroVel == <<0, 0, 0>>

(* PhysicsAfterReset: forward dynamics on the current joint state. *)
PhysicsAfterReset(m, d) == Forward(m, d.qpos, d.qvel)

----------------------------------------------------------------------------
(* Numeric helpers *)

RECURSIVE SqrtFrom(_, _)
SqrtFrom(n, r) == IF r * r >= n THEN r ELSE SqrtFrom(n, r + 1)

(* std::sqrt on the fixed-point grid, rounded up to the grid, so that the  *)
(* sign of sqrt(n) - r is the exact one for every grid value r.            *)
Sqrt(n) == SqrtFrom(n, 0)

(* std::log1p of a raw touch reading, in hundredths: log1p(1.0) = 0.693.., *)
(* log1p(2.0) = 1.098..                                                    *)
Log1p(x) == CASE x = 0 -> 0 [] x = 100 -> 69 [] x = 200 -> 110

(* std::sin / std::cos of the sampled angle; the angle is drawn from the   *)
(* multiples of pi/2 in [-pi, pi), named by their multiple.                *)
TargetAngles == {-2, -1, 0, 1}
Sin(a) == CASE a = -2 -> 0 [] a = -1 -> -1 [] a = 0 -> 0 [] a = 1 -> 1
Cos(a) == CASE a = -2 -> -1 [] a = -1 -> 0 [] a = 0 -> 1 [] a = 1 -> 0

(* static_cast<float>(bool): 1.0 or 0.0 *)
BoolToFloat(b) == IF b THEN 100 ELSE 0

----------------------------------------------------------------------------
(* FingerEnv: constructor *)

CtorThrowsNever(name) == FALSE

(* lines 89-95: the final else-if throws std::runtime_error *)
CtorThrows(name) ==
  IF name = "turn_easy" THEN FALSE
  ELSE IF name = "turn_hard" THEN FALSE
  ELSE name /= "spin"

(* the values target_radius_ can hold when the constructor's body ends *)
CtorTargetRadius(name) ==
  IF name = "turn_easy" THEN {kEasyTargetSize}
  ELSE IF name = "turn_hard" THEN {kHardTargetSize}
  ELSE UninitRadius

----------------------------------------------------------------------------
(* FingerEnv: observation accessors, on mjData d and mjModel m *)

HingeVelocity(d) == d.sensordata[4]

TipPosition(d) ==
  <<d.sensordata[5] - d.sensordata[11], d.sensordata[7] - d.sensordata[13]>>

BoundedPosition(d) ==
  <<d.sensordata[0], d.sensordata[1], TipPosition(d)[1], TipPosition(d)[2]>>

TargetPosition(d) ==
  <<d.sensordata[8] - d.sensordata[11], d.sensordata[10] - d.sensordata[13]>>

Touch(d) == <<Log1p(d.sensordata[14]), Log1p(d.sensordata[15])>>

Velocity(d) == <<d.sensordata[2], d.sensordata[3], d.sensordata[4]>>

ToTarget(d) ==
  <<TargetPosition(d)[1] - TipPosition(d)[1],
    TargetPosition(d)[2] - TipPosition(d)[2]>>

DistToTargetNoRadius(m, d) ==
  Sqrt(ToTarget(d)[1] * ToTarget(d)[1] + ToTarget(d)[2] * ToTarget(d)[2])

DistToTarget(m, d) ==
  Sqrt(ToTarget(d)[1] * ToTarget(d)[1] + ToTarget(d)[2] * ToTarget(d)[2])
    - m.site_size[0]

TaskGetRewardStrict(m, d) ==
  IF is_spin_ THEN BoolToFloat(HingeVelocity(d) < -kSpinVelocity)
  ELSE BoolToFloat(DistToTarget(m, d) <= 0)

TaskGetReward(m, d) ==
  IF is_spin_ THEN BoolToFloat(HingeVelocity(d) <= -kSpinVelocity)
  ELSE BoolToFloat(DistToTarget(m, d) <= 0)

TaskShouldTerminateOnSuccess == reward_ > 0

TaskShouldTerminateEpisode == FALSE

(* Env::Allocate: a fresh record with a slot for every key of the state    *)
(* spec (and the framework's reward), nothing written yet.                 *)
Allocate == [k \in StateSpec \cup {"reward"} |-> <<>>]

NoRecord == [k \in {} |-> <<>>]

WriteStateAllVariants(m, d, rew, disc) ==
  [Allocate EXCEPT
     !["reward"] = <<rew>>,
     !["discount"] = <<disc>>,
     !["obs:position"] = BoundedPosition(d),
     !["obs:velocity"] = Velocity(d),
     !["obs:touch"] = Touch(d),
     !["obs:target_position"] = TargetPosition(d),
     !["obs:dist_to_target"] = <<DistToTarget(m, d)>>]

WriteState(m, d, rew, disc) ==
  LET obs == [Allocate EXCEPT
                !["reward"] = <<rew>>,
                !["discount"] = <<disc>>,
                !["obs:position"] = BoundedPosition(d),
                !["obs:velocity"] = Velocity(d),
                !["obs:touch"] = Touch(d)]
  IN IF ~is_spin_
       THEN [obs EXCEPT
               !["obs:target_position"] = TargetPosition(d),
               !["obs:dist_to_target"] = <<DistToTarget(m, d)>>]
       ELSE obs

----------------------------------------------------------------------------
(* FingerEnv::TaskInitializeEpisode: the writes to the model *)

(* lines 100-102 *)
SpinInitModel(m) ==
  [m EXCEPT !.site_rgba[3 * 0 + 3] = 0,
            !.site_rgba[3 * 3 + 3] = 0,
            !.dof_damping[2] = kSpinDamping]

TurnInitModelEasySize(m, target_angle) ==
  LET hinge_x == xanchor[2 * 3 + 0]
      hinge_z == xanchor[2 * 3 + 2]
      radius == m.geom_size[5 * 3 + 0] + m.geom_size[5 * 1] + m.geom_size[5 * 2]
  IN [m EXCEPT !.site_pos[0] = hinge_x + radius * Sin(target_angle),
               !.site_pos[2] = hinge_z + radius * Cos(target_angle),
               !.site_size[0] = kEasyTargetSize]

(* lines 105-114 *)
TurnInitModel(m, target_angle) ==
  LET hinge_x == xanchor[2 * 3 + 0]
      hinge_z == xanchor[2 * 3 + 2]
      radius == m.geom_size[5 * 3 + 0] + m.geom_size[5 * 1] + m.geom_size[5 * 2]
      target_x == hinge_x + radius * Sin(target_angle)
      target_z == hinge_z + radius * Cos(target_angle)
  IN [m EXCEPT !.site_pos[0] = target_x,
               !.site_pos[2] = target_z,
               !.site_size[0] = target_radius_]

(* SetRandomJointAngles, line 180: the test that leaves the loop *)
ContactFreeNever(d) == FALSE

ContactFree(d) == d.ncon = 0

----------------------------------------------------------------------------
Init ==
  /\ pc = "new"
  /\ task_name \in TaskNames
  /\ is_spin_ = FALSE
  /\ target_radius_ = 0
  /\ model_ = InitModel
  /\ data_ = Forward(InitModel, qpos0, ZeroVel)
  /\ i = 0
  /\ i_for = 0
  /\ attempts = 0
  /\ target_writes = 0
  /\ reward_ = 0
  /\ discount_ = 100
  /\ done_ = FALSE
  /\ elapsed_step_ = 0
  /\ state = NoRecord
  /\ last_op = "none"

(* FingerEnv::FingerEnv *)
Construct ==
  /\ pc = "new"
  /\ is_spin_' = (task_name = "spin")
  /\ \E r \in CtorTargetRadius(task_name) : target_radius_' = r
  /\ pc' = IF CtorThrows(task_name) THEN "config_error" ELSE "idle"
  /\ UNCHANGED <<task_name, model_, data_, i, i_for, attempts, target_writes,
                 reward_, discount_, done_, elapsed_step_, state, last_op>>

(* Reset, first part: ControlReset up to and including the part of         *)
(* TaskInitializeEpisode before the loop of SetRandomJointAngles.          *)
ResetBegin ==
  /\ pc \in {"idle", "ready"}
  /\ elapsed_step_' = 0
  /\ reward_' = 0
  /\ discount_' = 100
  /\ done_' = FALSE
  /\ IF is_spin_
       THEN /\ model_' = SpinInitModel(model_)
            /\ target_writes' = 0
       ELSE /\ \E target_angle \in TargetAngles :
                 model_' = TurnInitModel(model_, target_angle)
            /\ target_writes' = 1
  /\ data_' = Forward(model_, qpos0, ZeroVel)
  /\ i' = 0
  /\ i_for' = 0
  /\ attempts' = 0
  /\ state' = NoRecord
  /\ last_op' = "Reset"
  /\ pc' = "sampling"
  /\ UNCHANGED <<task_name, is_spin_, target_radius_>>

(* One pass of the for statement of SetRandomJointAngles (lines 177-183),  *)
(* with the loop test that follows it.                                     *)
Attempt ==
  /\ pc = "sampling"
  /\ i_for < max_attempts
  /\ \E q \in JointConfigs :
       data_' = PhysicsAfterReset(model_, [data_ EXCEPT !.qpos = q])
  /\ attempts' = attempts + 1
  /\ IF ContactFree(data_')
       THEN /\ i_for' = i_for
            /\ pc' = "sampled"
       ELSE /\ i_for' = i_for + 1
            /\ pc' = IF i_for + 1 < max_attempts THEN "sampling" ELSE "sampled"
  /\ UNCHANGED <<task_name, is_spin_, target_radius_, model_, i, target_writes,
                 reward_, discount_, done_, elapsed_step_, state, last_op>>

(* Reset, last part: the test after the loop (lines 184-187), the rest of  *)
(* ControlReset, and WriteState.  The locals of SetRandomJointAngles end   *)
(* with the call.                                                          *)
ResetFinish ==
  /\ pc = "sampled"
  /\ IF i = max_attempts
       THEN /\ pc' = "init_error"
            /\ UNCHANGED <<data_, state>>
       ELSE /\ data_' = PhysicsAfterReset(model_, data_)
            /\ state' = WriteState(model_, data_', reward_, discount_)
            /\ pc' = "ready"
  /\ i' = 0
  /\ i_for' = 0
  /\ attempts' = 0
  /\ UNCHANGED <<task_name, is_spin_, target_radius_, model_, target_writes,
                 reward_, discount_, done_, elapsed_step_, last_op>>

(* Step: ControlStep (the engine advances, the reward and the end of the   *)
(* episode are computed), then WriteState.                                 *)
Step ==
  /\ pc = "ready"
  /\ ~done_
  /\ \E q \in JointConfigs, hv \in HingeVelocities :
       data_' = Forward(model_, q, <<0, 0, hv>>)
  /\ reward_' = TaskGetReward(model_, data_')
  /\ elapsed_step_' = elapsed_step_ + 1
  /\ done_' = ((elapsed_step_' >= max_episode_steps) \/ TaskShouldTerminateEpisode')
  /\ discount_' = IF TaskShouldTerminateEpisode' THEN 0 ELSE 100
  /\ state' = WriteState(model_, data_', reward_', discount_')
  /\ last_op' = "Step"
  /\ UNCHANGED <<pc, task_name, is_spin_, target_radius_, model_, i, i_for,
                 attempts, target_writes>>

Next == Construct \/ ResetBegin \/ Attempt \/ ResetFinish \/ Step

Spec == Init /\ [][Next]_vars

(* The loop of SetRandomJointAngles runs to its end once entered: Reset is *)
(* one synchronous call.                                                   *)
LiveSpec == Spec /\ WF_vars(Attempt) /\ WF_vars(ResetFinish)

----------------------------------------------------------------------------
(* Properties *)

ValidTaskNames == {"spin", "turn_easy", "turn_hard"}

(* The variant's target radius as the configuration names it. *)
VariantRadius == IF task_name = "turn_easy" THEN 7 ELSE 3

(* Squared length of target_position - tip_position, from the raw sensors. *)
ToTargetSq ==
  LET sd == data_.sensordata
      dx == (sd[8] - sd[11]) - (sd[5] - sd[11])
      dz == (sd[10] - sd[13]) - (sd[7] - sd[13])
  IN dx * dx + dz * dz

(* C1: when Reset has written its record, the contact count is 0. *)
C1_ContactFreeAtFirstObservation ==
  (pc = "ready" /\ last_op = "Reset") => data_.ncon = 0

(* C2: when the loop of SetRandomJointAngles ends after max_attempts       *)
(* attempts that all left contacts, the call raises: Reset does not        *)
(* complete and writes no record.                                          *)
C2_ExhaustionIsFatal ==
  [][(pc = "sampled" /\ attempts = max_attempts /\ data_.ncon /= 0)
       => (pc' = "init_error" /\ state' = NoRecord)]_vars

(* C3: construction fails exactly for the task names other than spin,      *)
(* turn_easy and turn_hard, and then nothing is ever run on the instance;  *)
(* when it succeeds is_spin_ holds exactly for spin, and target_radius_ is *)
(* 0.07 for turn_easy and 0.03 for turn_hard.                              *)
C3_Construction ==
  pc /= "new" =>
    /\ (pc = "config_error") <=> (task_name \notin ValidTaskNames)
    /\ pc = "config_error" => (state = NoRecord /\ last_op = "none")
    /\ pc /= "config_error" =>
         /\ is_spin_ <=> (task_name = "spin")
         /\ task_name = "turn_easy" => target_radius_ = 7
         /\ task_name = "turn_hard" => target_radius_ = 3

C3_Witness == pc = "config_error" /\ task_name = "turn"

(* C4: for spin, after Reset the alpha of site 0 and of site 3 (4 colour   *)
(* components per site) is 0, the damping of dof 2 is 0.03, and no other   *)
(* colour component has changed.                                           *)
C4_SpinResetModel ==
  (is_spin_ /\ pc = "ready") =>
    /\ model_.site_rgba[4 * 0 + 3] = 0
    /\ model_.site_rgba[4 * 3 + 3] = 0
    /\ model_.dof_damping[2] = 3
    /\ \A k \in 0..15 \ {4 * 0 + 3, 4 * 3 + 3} :
         model_.site_rgba[k] = InitSiteRgba[k]

(* C5: for the turn variants, after Reset dist_to_target is the length of  *)
(* target_position - tip_position (rounded up to the grid) minus the       *)
(* variant's radius, the reward function gives 1.0 exactly when that is    *)
(* <= 0, i.e. when the tip is within the radius, the boundary included,    *)
(* and the record carries these values.                                    *)
C5_TurnDistAndReward ==
  (~is_spin_ /\ pc = "ready") =>
    LET dist == DistToTarget(model_, data_)
        n == dist + VariantRadius
    IN /\ n >= 0
       /\ n * n >= ToTargetSq
       /\ (n = 0 \/ (n - 1) * (n - 1) < ToTargetSq)
       /\ TaskGetReward(model_, data_) \in {0, 100}
       /\ (TaskGetReward(model_, data_) = 100) <=> (dist <= 0)
       /\ (TaskGetReward(model_, data_) = 100)
            <=> (ToTargetSq <= VariantRadius * VariantRadius)
       /\ state["obs:dist_to_target"] = <<dist>>
       /\ last_op = "Step" => state["reward"] = <<TaskGetReward(model_, data_)>>

C5_Witness ==
  /\ ~is_spin_ /\ pc = "ready" /\ last_op = "Step"
  /\ task_name = "turn_hard"
  /\ ToTargetSq = 9
  /\ state["obs:dist_to_target"] = <<0>>
  /\ state["reward"] = <<100>>

(* C6: for spin the reward function gives 1.0 exactly when the hinge       *)
(* velocity (sensor 4, emitted as velocity[2]) is <= -15, the boundary     *)
(* included, whatever the other sensors and the target hold.               *)
C6_SpinReward ==
  (is_spin_ /\ pc = "ready") =>
    /\ TaskGetReward(model_, data_)
         = (IF data_.sensordata[4] <= -1500 THEN 100 ELSE 0)
    /\ state["obs:velocity"][3] = data_.sensordata[4]
    /\ last_op = "Step" =>
         state["reward"] = <<IF state["obs:velocity"][3] <= -1500 THEN 100 ELSE 0>>

C6_Witness ==
  /\ is_spin_ /\ pc = "ready" /\ last_op = "Step"
  /\ state["obs:velocity"][3] = -1500
  /\ state["reward"] = <<100>>

(* C7 as stated: the record of a spin instance has no target_position and  *)
(* no dist_to_target field; the record of a turn instance carries both.    *)
C7_SpinRecordOmitsTargetFields ==
  pc = "ready" =>
    IF is_spin_
      THEN /\ "obs:target_position" \notin DOMAIN state
           /\ "obs:dist_to_target" \notin DOMAIN state
      ELSE /\ state["obs:target_position"] /= <<>>
           /\ state["obs:dist_to_target"] /= <<>>

(* C7 amended: the record has the same fields for every variant; for spin  *)
(* target_position and dist_to_target are never written, for the turn      *)
(* variants both are written from the current engine state.                *)
C7_TargetFieldsWrittenForTurnOnly ==
  pc = "ready" =>
    /\ DOMAIN state = StateSpec \cup {"reward"}
    /\ IF is_spin_
         THEN /\ state["obs:target_position"] = <<>>
              /\ state["obs:dist_to_target"] = <<>>
         ELSE /\ state["obs:target_position"]
                   = <<data_.sensordata[8] - data_.sensordata[11],
                       data_.sensordata[10] - data_.sensordata[13]>>
              /\ state["obs:dist_to_target"] = <<DistToTarget(model_, data_)>>

C7_Witness ==
  /\ is_spin_ /\ pc = "ready" /\ last_op = "Step"
  /\ "obs:target_position" \in DOMAIN state
  /\ state["obs:target_position"] = <<>>
  /\ state["obs:position"] /= <<>>

(* C8: TaskShouldTerminateEpisode is false in every state, so an episode   *)
(* is done only when the step budget is used up, also when the reward is   *)
(* 1.0.                                                                    *)
C8_NeverTerminates ==
  /\ ~TaskShouldTerminateEpisode
  /\ done_ => elapsed_step_ >= max_episode_steps
  /\ (pc = "ready" /\ elapsed_step_ < max_episode_steps) => ~done_

C8_Witness ==
  pc = "ready" /\ last_op = "Step" /\ reward_ = 100 /\ ~done_ /\ elapsed_step_ = 2

(* C9: for the turn variants the target site (x, z and radius) is written  *)
(* once per episode, by the part of Reset before the joint angles are      *)
(* sampled, with the variant's radius; no other step changes it.           *)
C9_TargetWrittenOnceAtReset ==
  /\ [](( ~is_spin_ /\ pc \in {"sampling", "sampled", "ready"}) =>
          /\ target_writes = 1
          /\ model_.site_size[0] = VariantRadius)
  /\ [][(\/ model_'.site_pos /= model_.site_pos
         \/ model_'.site_size /= model_.site_size
         \/ target_writes' /= target_writes)
          => (pc \in {"idle", "ready"} /\ pc' = "sampling" /\ attempts' = 0)]_vars

C9_Witness ==
  /\ task_name = "turn_hard" /\ pc = "ready" /\ last_op = "Step"
  /\ elapsed_step_ = 3
  /\ target_writes = 1
  /\ model_.site_size[0] = 3
  /\ model_.site_pos[0] = 32

(* C10: the sampling loop ends: each attempt randomizes and recomputes     *)
(* before the contact count is read, no attempt follows one that left no   *)
(* contact, and there are never more than max_attempts attempts.           *)
C10_SamplingTerminates ==
  /\ [](/\ attempts <= 1000
        /\ (pc = "sampling" /\ attempts > 0) => data_.ncon /= 0
        /\ pc = "sampled" => (attempts >= 1 /\ (data_.ncon = 0 \/ attempts = 1000)))
  /\ [][attempts' > attempts => (pc = "sampling" /\ attempts' = attempts + 1)]_vars
  /\ (pc = "sampling") ~> (pc = "sampled")

C10_Witness == pc = "sampled" /\ attempts = 4 /\ data_.ncon = 0

====
